---- MODULE Spec2Model ----
(***************************************************************************)
(* Inventory management system: the stock ledger (Product.adjust_stock,   *)
(* the low-stock notifier), the routes of app.py that write to the         *)
(* database, the password-recovery flow and the product search.  The       *)
(* database is the committed state; a request that is between reading a    *)
(* product and committing holds its pending write set in req.              *)
(***************************************************************************)
EXTENDS Integers, Sequences, FiniteSets, TLC

VARIABLES
    users,          \* table users: id -> [role, is_active]
    cookies,        \* ids of the users whose browser holds a login cookie
    categories,     \* table categories: id -> [is_active]
    suppliers,      \* table suppliers: id -> [is_active]
    products,       \* table products: id -> [quantity, reorder_level, ...]
    txns,           \* table inventory_transactions, in insertion order
    notifications,  \* table notifications, in insertion order
    audit_logs,     \* table audit_logs, in insertion order
    req,            \* per worker: the product_adjust request in flight
    created_qty,    \* history: the quantity each product was created with
    response,       \* the response to the last request: status and flashes
    now,            \* datetime.utcnow(), in minutes
    session,        \* the Flask session of the browser that is not logged in
    page            \* what the last read-only request computed

\* The tables of the database.
db == <<users, categories, suppliers, products, txns, notifications,
        audit_logs>>

vars == <<users, cookies, categories, suppliers, products, txns,
          notifications, audit_logs, req, created_qty, response, now,
          session, page>>

----------------------------------------------------------------------------
(* Bounds: the rows the audit log may hold (every mutating request writes
   one), the largest initial quantity and the largest delta submitted. *)

MaxAudit == 3
MaxQty == 1
MaxDelta == 1
\* The rows the products and users tables may hold, the largest similarity
\* level of a search, and the last minute of the clock.
MaxProducts == 2
MaxUsers == 3
MaxSim == 2
MaxTime == 20
\* The documents of a corpus handed to SimpleNLP.
MaxDocs == 3

\* product_new / product_edit: form.reorder_level.data or 5
DefaultReorderLevel == 5

\* The workers that serve requests concurrently.
Workers == {"w1", "w2"}
\* The values the forms submit.
Roles == {"user", "manager", "admin"}
Passwords == {"pw1", "pw2"}
\* The codes generate_otp may draw and a visitor may submit.
OtpCodes == {"111111", "222222"}
AdjustmentTypes == {"in", "out", "adjust"}
QtyInputs == 0 .. MaxQty
ReorderInputs == {0, 1}
DeltaInputs == (-MaxDelta .. MaxDelta)

\* The texts of the search: product names, category names, queries.
ProductNames == {<<"usb", "cable">>, <<"USB", "cables">>, <<"other">>}
CategoryNames == {<<"cables">>, <<"other">>}
Queries == {<<>>, <<"usb">>, <<"cables">>, <<"cable", "usb">>, <<"other">>}
StockStatuses == {"", "in_stock", "low_stock", "out_of_stock"}
\* The corpora of at most MaxDocs documents.
Corpora == UNION {[1 .. n -> ProductNames] : n \in 0 .. MaxDocs}

\* product_new: `score > 0.15`, in hundredths.
SuggestThreshold == 15
\* The positive scores suggest_category may return, in hundredths.
ScoreLevels == {SuggestThreshold, SuggestThreshold + 1}
\* products: nlp.query(q, top_k=30)
TopK == 30
\* The values of top_k: small ones that cut the result, and the route's.
TopKInputs == {1, 2, TopK}
\* User.generate_otp: timedelta(minutes=10)
OtpValidMinutes == 10

----------------------------------------------------------------------------
(* Helpers *)

Abs(x) == IF x < 0 THEN -x ELSE x

\* Python's `x or d` on an integer form field (None and 0 are both falsy).
OrDefault(x, d) == IF x = 0 THEN d ELSE x

\* User.is_admin / LoginUser.is_admin
is_admin(u) == users[u].role = "admin"

\* A variant that accepts every submitted number.
DataRequired_Any(d) == TRUE

\* wtforms DataRequired on StockAdjustForm.delta: the data must be truthy.
DataRequired(d) == d # 0

\* A nullable DateTime column that holds no value.
NoTime == -1

\* The nullable column users.otp_code when it holds no value.
NoCode == "None"

\* flash(...) and redirect(...): the categories flashed, in order.
Redirect(flashes) == [status |-> 302, flashes |-> flashes]

\* jsonify(...), abort(status) and an unhandled exception: no flash.
Json(status) == [status |-> status, flashes |-> <<>>]

\* render_template(...) after the flashes of the request.
Render(flashes) == [status |-> 200, flashes |-> flashes]

\* A handler that returns before it writes anything.
Refused(r) ==
    /\ response' = r
    /\ UNCHANGED <<db, cookies, req, created_qty, now, session, page>>

----------------------------------------------------------------------------
(* Product.adjust_stock, piece by piece *)

\* A variant that adds the magnitude whatever the sign of the delta.
NewQuantityAbs(old_qty, delta) == old_qty + Abs(delta)

\* A variant that never lets the quantity go below zero.
NewQuantityClamped(old_qty, delta) ==
    IF old_qty + delta < 0 THEN 0 ELSE old_qty + delta

NewQuantity(old_qty, delta) == old_qty + delta

\* A variant that records every entry as a stock-in.
TransactionType_AlwaysIn(delta) == "in"

TransactionType(delta) == IF delta >= 0 THEN "in" ELSE "out"

\* A variant that records the signed delta.
MagnitudeSigned(delta) == delta

Magnitude(delta) == Abs(delta)

\* A variant with a strict comparison.
IsLowStockStrict(quantity, reorder_level) == quantity < reorder_level

IsLowStock(quantity, reorder_level) == quantity <= reorder_level

\* A variant that does not filter on is_active.
AdminsAnyStatus == {u \in DOMAIN users : users[u].role = "admin"}

\* User.query.filter_by(role='admin', is_active=True)
ActiveAdmins == {u \in DOMAIN users :
                    users[u].role = "admin" /\ users[u].is_active}

LowStockNotification(u, pid, quantity, reorder_level) ==
    [user_id |-> u, type |-> "low_stock", product_id |-> pid,
     quantity |-> quantity, reorder_level |-> reorder_level,
     is_read |-> FALSE, read_at |-> NoTime]

\* Product._create_low_stock_notification: one Notification per active
\* admin, in id order, for the users with id >= u.
RECURSIVE AdminNotifications(_, _, _, _)
AdminNotifications(u, pid, quantity, reorder_level) ==
    IF u > Len(users) THEN <<>>
    ELSE (IF u \in ActiveAdmins
          THEN <<LowStockNotification(u, pid, quantity, reorder_level)>>
          ELSE <<>>)
         \o AdminNotifications(u + 1, pid, quantity, reorder_level)

CreateLowStockNotification(pid, quantity, reorder_level) ==
    AdminNotifications(1, pid, quantity, reorder_level)

\* A variant that passes the submitted delta on whatever the type.
RouteDelta_Unconverted(adjustment_type, delta) == delta

\* The converted delta of product_adjust.
RouteDelta(adjustment_type, delta) ==
    CASE adjustment_type = "out" -> -Abs(delta)
      [] adjustment_type = "in" -> Abs(delta)
      [] OTHER -> delta

\* The write set adjust_stock has added to the session when it reaches
\* db.session.commit(): the product's new quantity, the ledger entry and
\* the notifications.
AdjustStock(pid, delta, user_id) ==
    LET old_qty == products[pid].quantity
        new_qty == NewQuantity(old_qty, delta)
        rl == products[pid].reorder_level
        low == IsLowStock(new_qty, rl)
    IN [pc |-> "staged",
        pid |-> pid,
        user_id |-> user_id,
        delta |-> delta,
        old_qty |-> old_qty,
        new_qty |-> new_qty,
        reorder_level |-> rl,
        txn |-> [product_id |-> pid,
                 user_id |-> user_id,
                 transaction_type |-> TransactionType(delta),
                 quantity |-> Magnitude(delta),
                 quantity_before |-> old_qty,
                 quantity_after |-> new_qty],
        notifier_called |-> low,
        notifs |-> IF low THEN CreateLowStockNotification(pid, new_qty, rl)
                   ELSE <<>>]

Idle ==
    [pc |-> "idle", pid |-> 0, user_id |-> 0, delta |-> 0, old_qty |-> 0,
     new_qty |-> 0, reorder_level |-> 0,
     txn |-> [product_id |-> 0, user_id |-> 0, transaction_type |-> "in",
              quantity |-> 0, quantity_before |-> 0, quantity_after |-> 0],
     notifier_called |-> FALSE, notifs |-> <<>>]

\* A variant that overwrites the newest row instead of inserting one.
AuditLoggedOverwrite(user_id, action, entity_type, entity_id) ==
    [audit_logs EXCEPT ![Len(audit_logs)] =
        [user_id |-> user_id, action |-> action,
         entity_type |-> entity_type, entity_id |-> entity_id]]

\* AuditLog.log through log_action: one row, committed on its own.
AuditLogged(user_id, action, entity_type, entity_id) ==
    Append(audit_logs, [user_id |-> user_id, action |-> action,
                        entity_type |-> entity_type, entity_id |-> entity_id])

CanLog == Len(audit_logs) < MaxAudit

----------------------------------------------------------------------------
(* Initial state: a seeded database (an administrator, a regular user, one  *)
(* category, one supplier, one product) after the administrator logged in. *)

\* seed_data.py inserts its products with a quantity and no ledger entry.
SeedProducts ==
    <<[name |-> <<"usb", "cable">>, quantity |-> 2, reorder_level |-> 1,
       is_active |-> TRUE, category_id |-> 1, supplier_id |-> 1]>>

\* A row of users as register and seed_data.py insert it.
NewUser(role, password) ==
    [role |-> role, is_active |-> TRUE, password |-> password,
     otp_code |-> NoCode, otp_expires |-> NoTime]

\* The Flask session of a browser that has not started a password reset.
\* verified_for is history, not part of the cookie: the users whose code
\* this browser has had verified.
NoSession ==
    [reset_user_id |-> 0, otp_verified |-> FALSE, verified_for |-> {}]

\* No read-only request has been served yet.
NoPage == [route |-> "none"]

Init ==
    /\ users = <<NewUser("admin", "pw1"), NewUser("user", "pw1")>>
    /\ cookies = {1}
    /\ categories = <<[name |-> <<"cables">>, is_active |-> TRUE]>>
    /\ suppliers = <<[is_active |-> TRUE]>>
    /\ products = SeedProducts
    /\ created_qty = [p \in DOMAIN SeedProducts |-> SeedProducts[p].quantity]
    /\ txns = <<>>
    /\ notifications = <<>>
    /\ audit_logs = <<[user_id |-> 1, action |-> "login",
                       entity_type |-> "user", entity_id |-> 1]>>
    /\ req = [w \in Workers |-> Idle]
    /\ response = Redirect(<<"success">>)
    /\ now = 0
    /\ session = NoSession
    /\ page = NoPage

----------------------------------------------------------------------------
(* product_adjust *)

\* The workers are interchangeable: a request is served by the first free
\* worker.
FreeWorker(w) == w = "w2" => req["w1"].pc # "idle"

\* The request up to db.session.commit() in adjust_stock: the product row
\* is read, the form validated, the delta converted and the write set built.
product_adjust_begin(w, u, pid, adjustment_type, d) ==
    /\ CanLog
    /\ req[w].pc = "idle"
    /\ FreeWorker(w)
    /\ u \in cookies
    /\ pid \in DOMAIN products
    /\ IF ~DataRequired(d)
       THEN Refused(Render(<<>>))
       ELSE /\ req' = [req EXCEPT ![w] =
                         AdjustStock(pid, RouteDelta(adjustment_type, d), u)]
            /\ UNCHANGED <<users, cookies, categories, suppliers, products,
                           txns, notifications, audit_logs, created_qty,
                           response, now, session, page>>

\* A variant whose commit loses the ledger INSERT.
product_adjust_commit_NoLedger(w) ==
    /\ req[w].pc = "staged"
    /\ CanLog
    /\ products' = [products EXCEPT ![req[w].pid].quantity = req[w].new_qty]
    /\ notifications' = notifications \o req[w].notifs
    /\ audit_logs' = AuditLogged(req[w].user_id, "adjust_stock", "product",
                                 req[w].pid)
    /\ req' = [req EXCEPT ![w] = Idle]
    /\ response' = Redirect(<<"success">>)
    /\ UNCHANGED <<users, cookies, categories, suppliers, txns, created_qty,
                   now, session, page>>

\* A variant whose UPDATE is relative to the row as it is at commit time
\* (SET quantity = quantity + delta).
product_adjust_commit_Relative(w) ==
    /\ req[w].pc = "staged"
    /\ CanLog
    /\ products' = [products EXCEPT ![req[w].pid].quantity = @ + req[w].delta]
    /\ txns' = Append(txns, req[w].txn)
    /\ notifications' = notifications \o req[w].notifs
    /\ audit_logs' = AuditLogged(req[w].user_id, "adjust_stock", "product",
                                 req[w].pid)
    /\ req' = [req EXCEPT ![w] = Idle]
    /\ response' = Redirect(<<"success">>)
    /\ UNCHANGED <<users, cookies, categories, suppliers, created_qty, now,
                   session, page>>

\* db.session.commit() succeeds: the UPDATE of the quantity, the INSERT of
\* the ledger entry and the INSERTs of the notifications become visible
\* together; then log_action writes the audit row.
product_adjust_commit(w) ==
    /\ req[w].pc = "staged"
    /\ CanLog
    /\ products' = [products EXCEPT ![req[w].pid].quantity = req[w].new_qty]
    /\ txns' = Append(txns, req[w].txn)
    /\ notifications' = notifications \o req[w].notifs
    /\ audit_logs' = AuditLogged(req[w].user_id, "adjust_stock", "product",
                                 req[w].pid)
    /\ req' = [req EXCEPT ![w] = Idle]
    /\ response' = Redirect(<<"success">>)
    /\ UNCHANGED <<users, cookies, categories, suppliers, created_qty, now,
                   session, page>>

\* A variant in which the notifications are committed on their own and
\* survive the failed commit of the stock change.
product_adjust_fail_KeepNotifs(w) ==
    /\ req[w].pc = "staged"
    /\ notifications' = notifications \o req[w].notifs
    /\ req' = [req EXCEPT ![w] = Idle]
    /\ response' = Json(500)
    /\ UNCHANGED <<users, cookies, categories, suppliers, products, txns,
                   audit_logs, created_qty, now, session, page>>

\* db.session.commit() raises: the exception leaves the request, the
\* session is rolled back and nothing of the write set is visible.
product_adjust_fail(w) ==
    /\ req[w].pc = "staged"
    /\ req' = [req EXCEPT ![w] = Idle]
    /\ response' = Json(500)
    /\ UNCHANGED <<users, cookies, categories, suppliers, products, txns,
                   notifications, audit_logs, created_qty, now, session, page>>

----------------------------------------------------------------------------
(* Authentication *)

\* login: a user without a cookie submits valid credentials.  An inactive
\* user is refused; otherwise the cookie is issued and the login is logged.
login(u) ==
    /\ u \notin cookies
    /\ IF ~users[u].is_active
       THEN Refused(Redirect(<<"danger">>))
       ELSE /\ CanLog
            /\ cookies' = cookies \cup {u}
            /\ audit_logs' = AuditLogged(u, "login", "user", u)
            /\ response' = Redirect(<<"success">>)
            /\ UNCHANGED <<users, categories, suppliers, products, txns,
                           notifications, req, created_qty, now, session,
                           page>>

\* logout: log_action runs before logout_user.
logout(u) ==
    /\ CanLog
    /\ u \in cookies
    /\ audit_logs' = AuditLogged(u, "logout", "user", u)
    /\ cookies' = cookies \ {u}
    /\ response' = Redirect(<<"info">>)
    /\ UNCHANGED <<users, categories, suppliers, products, txns,
                   notifications, req, created_qty, now, session, page>>

----------------------------------------------------------------------------
(* nlp_utils.py.  A text is a sequence of words. *)

Words == {"USB", "usb", "cable", "cables", "other"}

\* The words of sklearn's English stop list among Words.
StopWords == {"other"}

\* simple_preprocess at the granularity of words: text.lower().
Lower(w) == IF w = "USB" THEN "usb" ELSE w

simple_preprocess(text) == [i \in DOMAIN text |-> Lower(text[i])]

\* The features TfidfVectorizer(stop_words="english") extracts from a
\* preprocessed text.  (A shared bigram implies shared words.)
Terms(text) == {text[i] : i \in DOMAIN text} \ StopWords

\* SimpleNLP.fit: the corpus, and whether fit_transform built a matrix; it
\* raises ValueError (empty vocabulary) when no document yields a feature.
Corpus(docs) == [i \in DOMAIN docs |-> simple_preprocess(docs[i])]

Vocabulary(corpus) == UNION {Terms(corpus[i]) : i \in DOMAIN corpus}

\* SimpleNLP.__init__(docs): fit only `if docs`.
Fit(docs) ==
    IF docs = <<>> THEN "unfitted"
    ELSE IF Vocabulary(Corpus(docs)) = {} THEN "error"
    ELSE "fitted"

\* linear_kernel(q_vec, tfidf_matrix): the similarity of the query to each
\* document is some level that is positive iff the two share a feature.
Similarities(q, corpus, levels) ==
    LET sharing == {i \in DOMAIN corpus :
                      Terms(simple_preprocess(q)) \cap Terms(corpus[i]) # {}}
    IN {[i \in DOMAIN corpus |-> IF i \in sharing THEN level[i] ELSE 0] :
           level \in [sharing -> levels]}

\* sims.argsort(): an ordering of the indices by ascending similarity
\* (the order among equal similarities is not specified).
Argsorts(sims) ==
    {o \in [DOMAIN sims -> DOMAIN sims] :
        /\ \A i, j \in DOMAIN sims : i # j => o[i] # o[j]
        /\ \A i, j \in DOMAIN sims : i < j => sims[o[i]] <= sims[o[j]]}

\* o[::-1]
Reversed(o) == [i \in DOMAIN o |-> o[Len(o) + 1 - i]]

\* o[:top_k]
FirstK(o, top_k) == IF Len(o) <= top_k THEN o ELSE SubSeq(o, 1, top_k)

\* A variant that keeps the entries with similarity 0.
QueryEntriesUnfiltered(sims, idxs) ==
    [k \in DOMAIN idxs |-> [idx |-> idxs[k], sim |-> sims[idxs[k]]]]

\* [(corpus[i], sims[i], i) for i in idxs if sims[i] > 0.0]
QueryEntries(sims, idxs) ==
    LET kept == SelectSeq(idxs, LAMBDA i : sims[i] > 0)
    IN [k \in DOMAIN kept |-> [idx |-> kept[k], sim |-> sims[kept[k]]]]

\* SimpleNLP.query on a fitted model with the similarities sims and the
\* argsort o.
Query(sims, o, top_k) == QueryEntries(sims, FirstK(Reversed(o), top_k))

\* SimpleNLP.suggest_category after sims is computed: argmax, and no
\* suggestion when the best score is not positive.  ids: the keys of
\* categories_map in order.
Argmax(sims) ==
    CHOOSE i \in DOMAIN sims :
        /\ \A j \in DOMAIN sims : sims[j] <= sims[i]
        /\ \A j \in DOMAIN sims : sims[j] = sims[i] => i <= j

SuggestCategory(sims, ids) ==
    IF ids = <<>> THEN [category_id |-> 0, score |-> 0]
    ELSE LET best_idx == Argmax(sims)
         IN IF sims[best_idx] <= 0 THEN [category_id |-> 0, score |-> 0]
            ELSE [category_id |-> ids[best_idx], score |-> sims[best_idx]]

----------------------------------------------------------------------------
(* Products *)

\* The choices of ProductForm.category_id / supplier_id: 0 and the ids of
\* the active rows.
CategoryChoices == {0} \cup {c \in DOMAIN categories : categories[c].is_active}
SupplierChoices == {0} \cup {s \in DOMAIN suppliers : suppliers[s].is_active}

\* Category.query.filter_by(is_active=True): the ids of the rows.
ActiveCategoryIds ==
    SelectSeq([c \in DOMAIN categories |-> c],
              LAMBDA c : categories[c].is_active)

\* The outcomes of the suggestion block of product_new, which runs `if not
\* product.category_id and categories`: it raises when the category names
\* yield no feature, and otherwise returns suggest_category's pair for some
\* similarities of the product text to the category names.
Suggestions(name, category_id) ==
    IF ~(category_id = 0 /\ ActiveCategoryIds # <<>>)
    THEN {[raised |-> FALSE, category_id |-> 0, score |-> 0]}
    ELSE LET ids == ActiveCategoryIds
             names == [k \in DOMAIN ids |-> categories[ids[k]].name]
         IN IF Fit(names) = "error"
            THEN {[raised |-> TRUE, category_id |-> 0, score |-> 0]}
            ELSE {[raised |-> FALSE,
                   category_id |-> SuggestCategory(sims, ids).category_id,
                   score |-> SuggestCategory(sims, ids).score] :
                     sims \in Similarities(name, Corpus(names), ScoreLevels)}

\* `if suggested_cat_id and score > 0.15`: the suggestion is flashed.
SuggestionFlashed(s) == s.category_id # 0 /\ s.score > SuggestThreshold

\* The response that carries the suggestion: the 'info' flash names the
\* suggested category and the score, and the success flash follows.
SuggestionMessage(s) ==
    Redirect(<<"info", "success">>)
        @@ [suggested |-> s.category_id, score |-> s.score]

\* A variant that stores the suggested category in the new row.
product_new_ApplySuggestion(u, name, quantity, reorder_level, active, category_id, supplier_id) ==
    /\ u \in cookies
    /\ category_id \in CategoryChoices
    /\ supplier_id \in SupplierChoices
    /\ Len(products) < MaxProducts
    /\ \E s \in Suggestions(name, category_id) :
        /\ products' = Append(products,
                          [name |-> name,
                           quantity |-> OrDefault(quantity, 0),
                           reorder_level |->
                               OrDefault(reorder_level, DefaultReorderLevel),
                           is_active |-> active,
                           category_id |-> IF SuggestionFlashed(s)
                                           THEN s.category_id
                                           ELSE category_id,
                           supplier_id |-> supplier_id])
        /\ created_qty' = Append(created_qty, OrDefault(quantity, 0))
        /\ IF s.raised
           THEN /\ response' = Json(500)
                /\ UNCHANGED audit_logs
           ELSE /\ CanLog
                /\ audit_logs' = AuditLogged(u, "create", "product",
                                             Len(products) + 1)
                /\ response' = IF SuggestionFlashed(s)
                                THEN SuggestionMessage(s)
                                ELSE Redirect(<<"success">>)
    /\ UNCHANGED <<users, cookies, categories, suppliers, txns,
                   notifications, req, now, session, page>>

\* product_new: the row is committed with the category of the form (0 for
\* none); then the category suggestion runs, which may raise before the
\* audit row is written or flash a suggestion; then log_action and the
\* success flash.
product_new(u, name, quantity, reorder_level, active, category_id, supplier_id) ==
    /\ u \in cookies
    /\ category_id \in CategoryChoices
    /\ supplier_id \in SupplierChoices
    /\ Len(products) < MaxProducts
    /\ \E s \in Suggestions(name, category_id) :
        /\ products' = Append(products,
                          [name |-> name,
                           quantity |-> OrDefault(quantity, 0),
                           reorder_level |->
                               OrDefault(reorder_level, DefaultReorderLevel),
                           is_active |-> active,
                           category_id |-> category_id,
                           supplier_id |-> supplier_id])
        /\ created_qty' = Append(created_qty, OrDefault(quantity, 0))
        /\ IF s.raised
           THEN /\ response' = Json(500)
                /\ UNCHANGED audit_logs
           ELSE /\ CanLog
                /\ audit_logs' = AuditLogged(u, "create", "product",
                                             Len(products) + 1)
                /\ response' = IF SuggestionFlashed(s)
                                THEN SuggestionMessage(s)
                                ELSE Redirect(<<"success">>)
    /\ UNCHANGED <<users, cookies, categories, suppliers, txns,
                   notifications, req, now, session, page>>

\* A variant that also assigns the form's quantity field (left empty).
product_edit_WithQuantity(u, pid, name, reorder_level, active, category_id, supplier_id) ==
    /\ CanLog
    /\ u \in cookies
    /\ pid \in DOMAIN products
    /\ category_id \in CategoryChoices
    /\ supplier_id \in SupplierChoices
    /\ products' = [products EXCEPT
                       ![pid].name = name,
                       ![pid].quantity = OrDefault(0, 0),
                       ![pid].reorder_level =
                           OrDefault(reorder_level, DefaultReorderLevel),
                       ![pid].is_active = active,
                       ![pid].category_id = category_id,
                       ![pid].supplier_id = supplier_id]
    /\ audit_logs' = AuditLogged(u, "update", "product", pid)
    /\ response' = Redirect(<<"success">>)
    /\ UNCHANGED <<users, cookies, categories, suppliers, txns,
                   notifications, req, created_qty, now, session, page>>

\* product_edit assigns every column of the form except quantity.
product_edit(u, pid, name, reorder_level, active, category_id, supplier_id) ==
    /\ CanLog
    /\ u \in cookies
    /\ pid \in DOMAIN products
    /\ category_id \in CategoryChoices
    /\ supplier_id \in SupplierChoices
    /\ products' = [products EXCEPT
                       ![pid].name = name,
                       ![pid].reorder_level =
                           OrDefault(reorder_level, DefaultReorderLevel),
                       ![pid].is_active = active,
                       ![pid].category_id = category_id,
                       ![pid].supplier_id = supplier_id]
    /\ audit_logs' = AuditLogged(u, "update", "product", pid)
    /\ response' = Redirect(<<"success">>)
    /\ UNCHANGED <<users, cookies, categories, suppliers, txns,
                   notifications, req, created_qty, now, session, page>>

\* A variant that removes the row.
product_delete_Hard(u, pid) ==
    /\ u \in cookies
    /\ pid \in DOMAIN products
    /\ IF ~is_admin(u)
       THEN Refused(Redirect(<<"danger">>))
       ELSE /\ CanLog
            /\ products' = [p \in 1 .. Len(products) - 1 |->
                               IF p < pid THEN products[p]
                               ELSE products[p + 1]]
            /\ audit_logs' = AuditLogged(u, "delete", "product", pid)
            /\ response' = Redirect(<<"warning">>)
            /\ UNCHANGED <<users, cookies, categories, suppliers, txns,
                           notifications, req, created_qty, now, session,
                           page>>

\* A variant without the admin check.
product_delete_AnyUser(u, pid) ==
    /\ u \in cookies
    /\ pid \in DOMAIN products
    /\ CanLog
    /\ products' = [products EXCEPT ![pid].is_active = FALSE]
    /\ audit_logs' = AuditLogged(u, "delete", "product", pid)
    /\ response' = Redirect(<<"warning">>)
    /\ UNCHANGED <<users, cookies, categories, suppliers, txns,
                   notifications, req, created_qty, now, session, page>>

product_delete(u, pid) ==
    /\ u \in cookies
    /\ pid \in DOMAIN products
    /\ IF ~is_admin(u)
       THEN Refused(Redirect(<<"danger">>))
       ELSE /\ CanLog
            /\ products' = [products EXCEPT ![pid].is_active = FALSE]
            /\ audit_logs' = AuditLogged(u, "delete", "product", pid)
            /\ response' = Redirect(<<"warning">>)
            /\ UNCHANGED <<users, cookies, categories, suppliers, txns,
                           notifications, req, created_qty, now, session,
                           page>>

----------------------------------------------------------------------------
(* Categories and suppliers *)

category_new(u, name) ==
    /\ CanLog
    /\ u \in cookies
    /\ categories' = Append(categories, [name |-> name, is_active |-> TRUE])
    /\ audit_logs' = AuditLogged(u, "create", "category", Len(categories) + 1)
    /\ response' = Redirect(<<"success">>)
    /\ UNCHANGED <<users, cookies, suppliers, products, txns, notifications,
                   req, created_qty, now, session, page>>

\* category_edit writes name, description, icon and colour only.
category_edit(u, cid, name) ==
    /\ CanLog
    /\ u \in cookies
    /\ cid \in DOMAIN categories
    /\ categories' = [categories EXCEPT ![cid].name = name]
    /\ audit_logs' = AuditLogged(u, "update", "category", cid)
    /\ response' = Redirect(<<"success">>)
    /\ UNCHANGED <<users, cookies, suppliers, products, txns, notifications,
                   req, created_qty, now, session, page>>

ActiveProductsOfCategory(cid) ==
    {p \in DOMAIN products :
        products[p].category_id = cid /\ products[p].is_active}

ActiveProductsOfSupplier(sid) ==
    {p \in DOMAIN products :
        products[p].supplier_id = sid /\ products[p].is_active}

\* A variant without the check for active products.
category_delete_Unchecked(u, cid) ==
    /\ u \in cookies
    /\ cid \in DOMAIN categories
    /\ IF ~is_admin(u)
       THEN Refused(Redirect(<<"danger">>))
       ELSE /\ CanLog
            /\ categories' = [categories EXCEPT ![cid].is_active = FALSE]
            /\ audit_logs' = AuditLogged(u, "delete", "category", cid)
            /\ response' = Redirect(<<"warning">>)
            /\ UNCHANGED <<users, cookies, suppliers, products, txns,
                           notifications, req, created_qty, now, session,
                           page>>

category_delete(u, cid) ==
    /\ u \in cookies
    /\ cid \in DOMAIN categories
    /\ IF ~is_admin(u) \/ Cardinality(ActiveProductsOfCategory(cid)) > 0
       THEN Refused(Redirect(<<"danger">>))
       ELSE /\ CanLog
            /\ categories' = [categories EXCEPT ![cid].is_active = FALSE]
            /\ audit_logs' = AuditLogged(u, "delete", "category", cid)
            /\ response' = Redirect(<<"warning">>)
            /\ UNCHANGED <<users, cookies, suppliers, products, txns,
                           notifications, req, created_qty, now, session,
                           page>>

supplier_new(u, active) ==
    /\ CanLog
    /\ u \in cookies
    /\ suppliers' = Append(suppliers, [is_active |-> active])
    /\ audit_logs' = AuditLogged(u, "create", "supplier", Len(suppliers) + 1)
    /\ response' = Redirect(<<"success">>)
    /\ UNCHANGED <<users, cookies, categories, products, txns, notifications,
                   req, created_qty, now, session, page>>

supplier_edit(u, sid, active) ==
    /\ CanLog
    /\ u \in cookies
    /\ sid \in DOMAIN suppliers
    /\ suppliers' = [suppliers EXCEPT ![sid].is_active = active]
    /\ audit_logs' = AuditLogged(u, "update", "supplier", sid)
    /\ response' = Redirect(<<"success">>)
    /\ UNCHANGED <<users, cookies, categories, products, txns, notifications,
                   req, created_qty, now, session, page>>

supplier_delete(u, sid) ==
    /\ u \in cookies
    /\ sid \in DOMAIN suppliers
    /\ IF ~is_admin(u) \/ Cardinality(ActiveProductsOfSupplier(sid)) > 0
       THEN Refused(Redirect(<<"danger">>))
       ELSE /\ CanLog
            /\ suppliers' = [suppliers EXCEPT ![sid].is_active = FALSE]
            /\ audit_logs' = AuditLogged(u, "delete", "supplier", sid)
            /\ response' = Redirect(<<"warning">>)
            /\ UNCHANGED <<users, cookies, categories, products, txns,
                           notifications, req, created_qty, now, session,
                           page>>

----------------------------------------------------------------------------
(* Users *)

user_edit(u, uid, role, active) ==
    /\ u \in cookies
    /\ uid \in DOMAIN users
    /\ IF ~is_admin(u)
       THEN Refused(Redirect(<<"danger">>))
       ELSE /\ CanLog
            /\ users' = [users EXCEPT ![uid].role = role,
                                      ![uid].is_active = active]
            /\ audit_logs' = AuditLogged(u, "update", "user", uid)
            /\ response' = Redirect(<<"success">>)
            /\ UNCHANGED <<cookies, categories, suppliers, products, txns,
                           notifications, req, created_qty, now, session,
                           page>>

user_toggle_active(u, uid) ==
    /\ u \in cookies
    /\ uid \in DOMAIN users
    /\ IF ~is_admin(u) THEN Refused(Json(403))
       ELSE IF uid = u THEN Refused(Json(400))
       ELSE /\ CanLog
            /\ users' = [users EXCEPT
                            ![uid].is_active = ~users[uid].is_active]
            /\ audit_logs' = AuditLogged(u, "toggle_active", "user", uid)
            /\ response' = Json(200)
            /\ UNCHANGED <<cookies, categories, suppliers, products, txns,
                           notifications, req, created_qty, now, session,
                           page>>

\* settings: the profile form writes columns that are not modelled; the
\* password form sets the password when the current one is given.
settings(u, submit, current_password, new_password) ==
    /\ u \in cookies
    /\ IF submit = "settings_submit"
       THEN /\ CanLog
            /\ audit_logs' = AuditLogged(u, "update", "user", u)
            /\ response' = Redirect(<<"success">>)
            /\ UNCHANGED users
       ELSE IF users[u].password = current_password
       THEN /\ CanLog
            /\ users' = [users EXCEPT ![u].password = new_password]
            /\ audit_logs' = AuditLogged(u, "change_password", "user", u)
            /\ response' = Redirect(<<"success">>)
       ELSE /\ response' = Render(<<"danger">>)
            /\ UNCHANGED <<users, audit_logs>>
    /\ UNCHANGED <<cookies, categories, suppliers, products, txns,
                   notifications, req, created_qty, now, session, page>>

----------------------------------------------------------------------------
(* Notifications *)

\* Notification.mark_as_read
mark_as_read(n) == [n EXCEPT !.is_read = TRUE, !.read_at = now]

\* A variant that marks the notification whoever owns it.
notification_read_AnyOwner(u, nid) ==
    /\ u \in cookies
    /\ nid \in DOMAIN notifications
    /\ notifications' = [notifications EXCEPT ![nid] = mark_as_read(@)]
    /\ response' = Json(200)
    /\ UNCHANGED <<users, cookies, categories, suppliers, products, txns,
                   audit_logs, req, created_qty, now, session, page>>

notification_read(u, nid) ==
    /\ u \in cookies
    /\ nid \in DOMAIN notifications
    /\ IF notifications[nid].user_id # u
       THEN Refused(Json(403))
       ELSE /\ notifications' =
                [notifications EXCEPT ![nid] = mark_as_read(@)]
            /\ response' = Json(200)
            /\ UNCHANGED <<users, cookies, categories, suppliers, products,
                           txns, audit_logs, req, created_qty, now, session,
                           page>>

notifications_read_all(u) ==
    /\ u \in cookies
    /\ notifications' =
           [n \in DOMAIN notifications |->
               IF notifications[n].user_id = u /\ ~notifications[n].is_read
               THEN [notifications[n] EXCEPT !.is_read = TRUE,
                                             !.read_at = now]
               ELSE notifications[n]]
    /\ response' = Redirect(<<"success">>)
    /\ UNCHANGED <<users, cookies, categories, suppliers, products, txns,
                   audit_logs, req, created_qty, now, session, page>>

----------------------------------------------------------------------------
(* Registration and password recovery.  These routes serve only a browser  *)
(* that is not logged in, so log_action, which writes only `if             *)
(* current_user.is_authenticated`, writes nothing in them.                 *)

\* log_action: one audit row `if current_user.is_authenticated`, none
\* otherwise.
log_action(is_authenticated, user_id, action, entity_type, entity_id) ==
    IF is_authenticated
    THEN AuditLogged(user_id, action, entity_type, entity_id)
    ELSE audit_logs

register(password) ==
    /\ Len(users) < MaxUsers
    /\ users' = Append(users, NewUser("user", password))
    /\ audit_logs' = log_action(FALSE, 0, "register", "user", Len(users) + 1)
    /\ response' = Redirect(<<"success">>)
    /\ UNCHANGED <<cookies, categories, suppliers, products, txns,
                   notifications, req, created_qty, now, session, page>>

\* User.generate_otp: a fresh code, valid for 10 minutes.
generate_otp(user, code) ==
    [user EXCEPT !.otp_code = code, !.otp_expires = now + OtpValidMinutes]

\* A variant that accepts a code until just before the expiry.
User_verify_otp_Early(user, code) ==
    IF user.otp_code = NoCode \/ user.otp_expires = NoTime THEN FALSE
    ELSE IF now >= user.otp_expires THEN FALSE
    ELSE user.otp_code = code

\* User.verify_otp
User_verify_otp(user, code) ==
    IF user.otp_code = NoCode \/ user.otp_expires = NoTime THEN FALSE
    ELSE IF now > user.otp_expires THEN FALSE
    ELSE user.otp_code = code

\* A variant that leaves the code and its expiry stored.
clear_otp_Kept(user) == user

\* User.clear_otp
clear_otp(user) == [user EXCEPT !.otp_code = NoCode, !.otp_expires = NoTime]

\* forgot_password: uid is the user who owns the submitted phone number (0
\* when nobody does), code the OTP drawn, sent whether the SMS went out.
forgot_password(uid, code, sent) ==
    /\ uid \in DOMAIN users \cup {0}
    /\ IF uid = 0
       THEN /\ response' = Render(<<"info">>)
            /\ UNCHANGED <<users, session>>
       ELSE /\ users' = [users EXCEPT ![uid] = generate_otp(@, code)]
            /\ IF sent
               THEN /\ session' = [session EXCEPT !.reset_user_id = uid]
                    /\ response' = Redirect(<<"success">>)
               ELSE /\ response' = Render(<<"danger">>)
                    /\ UNCHANGED session
    /\ UNCHANGED <<cookies, categories, suppliers, products, txns,
                   notifications, audit_logs, req, created_qty, now, page>>

\* verify_otp (the route)
verify_otp(code) ==
    IF session.reset_user_id = 0
    THEN Refused(Redirect(<<"warning">>))
    ELSE /\ IF User_verify_otp(users[session.reset_user_id], code)
            THEN /\ session' = [session EXCEPT
                                !.otp_verified = TRUE,
                                !.verified_for = @ \cup {session.reset_user_id}]
                 /\ response' = Redirect(<<"success">>)
            ELSE /\ response' = Render(<<"danger">>)
                 /\ UNCHANGED session
         /\ UNCHANGED <<db, cookies, req, created_qty, now, page>>

reset_password(password) ==
    IF ~session.otp_verified \/ session.reset_user_id = 0
    THEN Refused(Redirect(<<"warning">>))
    ELSE /\ users' = [users EXCEPT ![session.reset_user_id] =
                         clear_otp([@ EXCEPT !.password = password])]
         /\ session' = [NoSession EXCEPT
                            !.verified_for = session.verified_for]
         /\ audit_logs' = log_action(FALSE, 0, "password_reset", "user",
                                     session.reset_user_id)
         /\ response' = Redirect(<<"success">>)
         /\ UNCHANGED <<cookies, categories, suppliers, products, txns,
                        notifications, req, created_qty, now, page>>

\* Time passes: half the validity of an OTP.
Tick ==
    /\ now + OtpValidMinutes \div 2 <= MaxTime
    /\ now' = now + OtpValidMinutes \div 2
    /\ UNCHANGED <<db, cookies, req, created_qty, response, session, page>>

----------------------------------------------------------------------------
(* The products listing and the similarity search *)

\* Product.name.ilike("%q%") at the granularity of words: the words of q
\* occur in the name, adjacent and in order, whatever their case.
ilike(text, q) ==
    \E k \in 0 .. Len(text) - Len(q) :
        \A i \in DOMAIN q : Lower(text[k + i]) = Lower(q[i])

\* The three stock_status filters; any other value selects every product.
StockStatusMatches(p, stock_status) ==
    CASE stock_status = "in_stock" -> p.quantity > p.reorder_level
      [] stock_status = "low_stock" ->
             p.quantity <= p.reorder_level /\ p.quantity > 0
      [] stock_status = "out_of_stock" -> p.quantity = 0
      [] OTHER -> TRUE

\* The structured query of the listing.
StructuredQuery(q, category_id, supplier_id, stock_status) ==
    {p \in DOMAIN products :
        /\ products[p].is_active
        /\ q # <<>> => ilike(products[p].name, q)
        /\ category_id > 0 => products[p].category_id = category_id
        /\ supplier_id > 0 => products[p].supplier_id = supplier_id
        /\ StockStatusMatches(products[p], stock_status)}

\* Product.query.filter_by(is_active=True).all(), in id order.
AllActiveProducts ==
    SelectSeq([p \in DOMAIN products |-> p],
              LAMBDA p : products[p].is_active)

\* A variant that runs the fallback whenever a term was supplied.
FallbackRuns_AnyQuery(total, q) == q # <<>>

\* `if pagination.total == 0 and q`
FallbackRuns(total, q) == total = 0 /\ q # <<>>

\* products (the route): the structured query, then the fallback.
products_route(u, q, category_id, supplier_id, stock_status) ==
    /\ u \in cookies
    /\ LET structured ==
               StructuredQuery(q, category_id, supplier_id, stock_status)
           all_products == AllActiveProducts
           docs == [k \in DOMAIN all_products |->
                       products[all_products[k]].name]
           request == [route |-> "products", q |-> q,
                       category_id |-> category_id,
                       supplier_id |-> supplier_id,
                       stock_status |-> stock_status,
                       structured |-> structured]
       IN IF ~FallbackRuns(Cardinality(structured), q)
          THEN /\ page' = request @@ [fallback |-> "not run",
                                      shown |-> structured]
               /\ response' = Render(<<>>)
          ELSE IF Fit(docs) = "unfitted"
          THEN /\ page' = request @@ [fallback |-> "run",
                                      shown |-> structured]
               /\ response' = Render(<<>>)
          ELSE IF Fit(docs) = "error"
          THEN /\ page' = request @@ [fallback |-> "raised", shown |-> {}]
               /\ response' = Json(500)
          ELSE \E sims \in Similarities(q, Corpus(docs), 1 .. MaxSim) :
               \E o \in Argsorts(sims) :
                  LET matches == Query(sims, o, TopK)
                  IN /\ page' = request @@
                           [fallback |-> "run",
                            shown |-> IF matches # <<>>
                                      THEN {all_products[matches[k].idx] :
                                               k \in DOMAIN matches}
                                      ELSE structured]
                     /\ response' = Render(<<>>)
    /\ UNCHANGED <<db, cookies, req, created_qty, now, session>>

\* SimpleNLP(docs).query(q, top_k), called on its own.
query(docs, q, top_k) ==
    /\ IF Fit(docs) = "unfitted"
       THEN page' = [route |-> "query", docs |-> docs, q |-> q,
                     top_k |-> top_k, sims |-> <<>>, matches |-> <<>>]
       ELSE /\ Fit(docs) = "fitted"
            /\ \E sims \in Similarities(q, Corpus(docs), 1 .. MaxSim) :
               \E o \in Argsorts(sims) :
                  page' = [route |-> "query", docs |-> docs, q |-> q,
                           top_k |-> top_k, sims |-> sims,
                           matches |-> Query(sims, o, top_k)]
    /\ UNCHANGED <<db, cookies, req, created_qty, response, now, session>>

----------------------------------------------------------------------------

NoRequest == \A w \in Workers : req[w].pc = "idle"

\* The stock ledger under concurrent requests: stock adjustments served by
\* two workers, interleaved with edits of the product's reorder level and
\* with changes of the administrator roster.
Next ==
    \/ \E w \in Workers, u \in DOMAIN users, pid \in DOMAIN products,
          t \in AdjustmentTypes, d \in DeltaInputs :
            product_adjust_begin(w, u, pid, t, d)
    \/ \E w \in Workers : product_adjust_commit(w)
    \/ \E w \in Workers : product_adjust_fail(w)
    \/ \E u \in DOMAIN users, pid \in DOMAIN products, rl \in ReorderInputs :
            product_edit(u, pid, products[pid].name, rl,
                         products[pid].is_active,
                         products[pid].category_id, products[pid].supplier_id)
    \/ \E u \in DOMAIN users, t \in DOMAIN users, r \in Roles, a \in BOOLEAN :
            user_edit(u, t, r, a)
    \/ \E u \in DOMAIN users, t \in DOMAIN users : user_toggle_active(u, t)

Spec == Init /\ [][Next]_vars

\* Every route of the application, one request at a time.  The product
\* forms are submitted with the category and supplier left as they are.
NextRoutes ==
    \/ \E u \in DOMAIN users, pid \in DOMAIN products,
          t \in AdjustmentTypes, d \in DeltaInputs :
            product_adjust_begin("w1", u, pid, t, d)
    \/ product_adjust_commit("w1")
    \/ product_adjust_fail("w1")
    \/ \E u \in DOMAIN users : NoRequest /\ login(u)
    \/ \E u \in DOMAIN users : NoRequest /\ logout(u)
    \/ \E u \in DOMAIN users, q \in QtyInputs, rl \in ReorderInputs,
          a \in BOOLEAN :
            NoRequest /\ product_new(u, <<"usb", "cable">>, q, rl, a, 0, 0)
    \/ \E u \in DOMAIN users, pid \in DOMAIN products,
          rl \in ReorderInputs, a \in BOOLEAN :
            NoRequest /\ product_edit(u, pid, products[pid].name, rl, a,
                                      products[pid].category_id,
                                      products[pid].supplier_id)
    \/ \E u \in DOMAIN users, pid \in DOMAIN products :
            NoRequest /\ product_delete(u, pid)
    \/ \E u \in DOMAIN users : NoRequest /\ category_new(u, <<"cables">>)
    \/ \E u \in DOMAIN users, c \in DOMAIN categories :
            NoRequest /\ category_edit(u, c, categories[c].name)
    \/ \E u \in DOMAIN users, c \in DOMAIN categories :
            NoRequest /\ category_delete(u, c)
    \/ \E u \in DOMAIN users, a \in BOOLEAN : NoRequest /\ supplier_new(u, a)
    \/ \E u \in DOMAIN users, s \in DOMAIN suppliers, a \in BOOLEAN :
            NoRequest /\ supplier_edit(u, s, a)
    \/ \E u \in DOMAIN users, s \in DOMAIN suppliers :
            NoRequest /\ supplier_delete(u, s)
    \/ \E u \in DOMAIN users, t \in DOMAIN users, r \in Roles, a \in BOOLEAN :
            NoRequest /\ user_edit(u, t, r, a)
    \/ \E u \in DOMAIN users, t \in DOMAIN users :
            NoRequest /\ user_toggle_active(u, t)
    \/ \E u \in DOMAIN users, n \in DOMAIN notifications :
            NoRequest /\ notification_read(u, n)
    \/ \E u \in DOMAIN users : NoRequest /\ notifications_read_all(u)

SpecRoutes == Init /\ [][NextRoutes]_vars

\* Notifications over time: the administrator adjusts stock and reads the
\* notifications while the clock advances.
NextNotify ==
    \/ \E u \in DOMAIN users, pid \in DOMAIN products,
          t \in AdjustmentTypes, d \in DeltaInputs :
            product_adjust_begin("w1", u, pid, t, d)
    \/ product_adjust_commit("w1")
    \/ \E u \in DOMAIN users, n \in DOMAIN notifications :
            NoRequest /\ notification_read(u, n)
    \/ \E u \in DOMAIN users : NoRequest /\ notifications_read_all(u)
    \/ NoRequest /\ Tick

SpecNotify == Init /\ [][NextNotify]_vars

\* Accounts: registration, login, the settings page and the password
\* recovery of a browser that is not logged in.  The clock stands still and
\* every SMS goes out with the same code.
NextAccount ==
    \/ \E pw \in Passwords : register(pw)
    \/ \E u \in DOMAIN users : login(u)
    \/ \E u \in DOMAIN users, cur \in Passwords, new \in Passwords,
          submit \in {"settings_submit", "password_submit"} :
            settings(u, submit, cur, new)
    \/ \E uid \in DOMAIN users \cup {0} : forgot_password(uid, "111111", TRUE)
    \/ \E code \in OtpCodes : verify_otp(code)
    \/ \E pw \in Passwords : reset_password(pw)

SpecAccount == Init /\ [][NextAccount]_vars

\* Password recovery over time: codes are sent, submitted and used while
\* the clock advances.
NextOtp ==
    \/ \E uid \in DOMAIN users \cup {0}, code \in OtpCodes, sent \in BOOLEAN :
            forgot_password(uid, code, sent)
    \/ \E code \in OtpCodes : verify_otp(code)
    \/ \E pw \in Passwords : reset_password(pw)
    \/ Tick

SpecOtp == Init /\ [][NextOtp]_vars

\* The search: products and categories are created, renamed and deleted,
\* and then the listing is requested.
NextSearch ==
    \/ \E u \in DOMAIN users, name \in ProductNames,
          c \in DOMAIN categories \cup {0} :
            page = NoPage /\ product_new(u, name, 0, 0, TRUE, c, 0)
    \/ \E u \in DOMAIN users, pid \in DOMAIN products :
            page = NoPage /\ product_delete(u, pid)
    \/ \E u \in DOMAIN users, name \in CategoryNames :
            page = NoPage /\ category_new(u, name)
    \/ \E u \in DOMAIN users, c \in DOMAIN categories,
          name \in CategoryNames :
            page = NoPage /\ category_edit(u, c, name)
    \/ \E u \in DOMAIN users, q \in Queries,
          c \in DOMAIN categories \cup {0}, st \in StockStatuses :
            page = NoPage /\ products_route(u, q, c, 0, st)

SpecSearch == Init /\ [][NextSearch]_vars

\* SimpleNLP.query applied once to a corpus, a query and a top_k.
NextQuery ==
    \E docs \in Corpora, q \in Queries, top_k \in TopKInputs :
        page = NoPage /\ query(docs, q, top_k)

SpecQuery == Init /\ [][NextQuery]_vars

----------------------------------------------------------------------------
(* Properties of the stock ledger *)

\* Worker w's request ends in this step with a successful commit (the audit
\* row of the adjustment is written), or with a failed one.
CommitStep(w) ==
    req[w].pc = "staged" /\ req'[w].pc = "idle" /\ audit_logs' # audit_logs

FailStep(w) ==
    req[w].pc = "staged" /\ req'[w].pc = "idle" /\ audit_logs' = audit_logs

BeginStep(w) == req[w].pc = "idle" /\ req'[w].pc = "staged"

IsPrefix(s, t) == Len(s) <= Len(t) /\ \A i \in DOMAIN s : t[i] = s[i]

SignedDelta(t) ==
    IF t.transaction_type = "in" THEN t.quantity ELSE -t.quantity

\* Sum of the signed deltas of the first n ledger entries of product pid.
RECURSIVE LedgerSum(_, _)
LedgerSum(pid, n) ==
    IF n = 0 THEN 0
    ELSE LedgerSum(pid, n - 1)
         + (IF txns[n].product_id = pid THEN SignedDelta(txns[n]) ELSE 0)

\* C1: when requests do not overlap, a successful adjust_stock(d) leaves the
\* product's quantity at the quantity before the call plus d and appends
\* exactly one ledger entry with quantity_before = the old quantity,
\* quantity_after = old + d, quantity = |d| and type 'in' iff d >= 0.
C1_AdjustEffect ==
    [][\A w \in Workers :
         CommitStep(w) =>
            LET pid == req[w].pid
                d == req[w].delta
                old == products[pid].quantity
            IN /\ d # 0
               /\ products'[pid].quantity = old + d
               /\ txns' = Append(txns,
                     [product_id |-> pid,
                      user_id |-> req[w].user_id,
                      transaction_type |-> IF d >= 0 THEN "in" ELSE "out",
                      quantity |-> IF d < 0 THEN -d ELSE d,
                      quantity_before |-> old,
                      quantity_after |-> old + d])]_vars

\* C1 witness: a stock-out has been committed and the product shows it.
C1_Witness ==
    \E i \in DOMAIN txns :
        /\ txns[i].transaction_type = "out"
        /\ txns[i].quantity_after = txns[i].quantity_before - txns[i].quantity
        /\ products[txns[i].product_id].quantity = txns[i].quantity_after

\* C2 as claimed: every product created through product_new has a quantity
\* equal to the sum of the signed deltas of its ledger entries.
C2_QuantityIsLedgerSum ==
    \A p \in DOMAIN products \ DOMAIN SeedProducts :
        products[p].quantity = LedgerSum(p, Len(txns))

\* C2 amended: when requests do not overlap, every product's quantity is
\* the quantity it was created with plus the sum of the signed deltas of
\* its ledger entries.
C2_QuantityIsCreatedPlusLedger ==
    \A p \in DOMAIN products :
        products[p].quantity = created_qty[p] + LedgerSum(p, Len(txns))

\* C2 witness: a product created with a positive quantity has been adjusted
\* in both directions.
C2_Witness ==
    \E p \in DOMAIN products :
        /\ created_qty[p] > 0
        /\ \E i, j \in DOMAIN txns :
              /\ txns[i].product_id = p /\ txns[i].transaction_type = "in"
              /\ txns[j].product_id = p /\ txns[j].transaction_type = "out"

\* C3: quantity changes and ledger entries are paired in every step: a step
\* that changes a product's quantity appends exactly one ledger entry for
\* that product whose quantity_after is the new quantity, a step that
\* appends to the ledger appends one entry and sets that product's quantity
\* to its quantity_after, and a failed commit changes no table.
C3_QuantityLedgerPaired ==
    [][/\ \A p \in DOMAIN products :
            products'[p].quantity # products[p].quantity =>
               /\ Len(txns') = Len(txns) + 1
               /\ txns'[Len(txns')].product_id = p
               /\ txns'[Len(txns')].quantity_after = products'[p].quantity
       /\ txns' # txns =>
            /\ Len(txns') = Len(txns) + 1
            /\ IsPrefix(txns, txns')
            /\ products'[txns'[Len(txns')].product_id].quantity
                   = txns'[Len(txns')].quantity_after
            /\ \A p \in DOMAIN products :
                  p # txns'[Len(txns')].product_id =>
                     products'[p].quantity = products[p].quantity
       /\ \A w \in Workers :
            FailStep(w) =>
               /\ products' = products
               /\ txns' = txns
               /\ notifications' = notifications]_vars

\* C3 witness: one adjustment is committed and visible, another one is
\* staged and its new quantity is not visible.
C3_Witness ==
    /\ Len(txns) = 1
    /\ products[txns[1].product_id].quantity = txns[1].quantity_after
    /\ \E w \in Workers :
          /\ req[w].pc = "staged"
          /\ req[w].pid = txns[1].product_id
          /\ req[w].new_qty # products[req[w].pid].quantity

\* C4: when requests do not overlap, a successful adjust_stock calls the
\* low-stock notifier iff the quantity after the adjustment is <= the
\* product's reorder_level, on every call; with an active administrator
\* present, notifications are inserted exactly in those calls.
C4_NotifyIffLow ==
    [][\A w \in Workers :
         CommitStep(w) =>
            LET pid == req[w].pid
                low == products'[pid].quantity <= products'[pid].reorder_level
                admins == {u \in DOMAIN users :
                             users[u].role = "admin" /\ users[u].is_active}
            IN /\ req[w].notifier_called <=> low
               /\ Len(notifications') > Len(notifications)
                     <=> (low /\ admins # {})
               /\ Len(notifications') >= Len(notifications)]_vars

\* C4 witness: two successive adjustments of one product both ended at or
\* below the reorder level, the first exactly at it, and each left its own
\* notification.
C4_Witness ==
    \E i, j \in DOMAIN txns, m, n \in DOMAIN notifications :
        /\ j = i + 1 /\ m < n
        /\ txns[i].product_id = txns[j].product_id
        /\ txns[i].quantity_after = products[txns[i].product_id].reorder_level
        /\ txns[j].quantity_after < products[txns[j].product_id].reorder_level
        /\ txns[j].quantity_before = txns[i].quantity_after
        /\ notifications[m].user_id = notifications[n].user_id
        /\ notifications[m].product_id = txns[i].product_id
        /\ notifications[n].product_id = txns[i].product_id
        /\ notifications[m].quantity = txns[i].quantity_after
        /\ notifications[n].quantity = txns[j].quantity_after

\* C5: an adjust_stock call that triggers the notifier stages exactly one
\* notification for each user who has role 'admin' and is active at that
\* moment and none for anyone else; its commit inserts exactly the staged
\* notifications together with the ledger entry and the new quantity, also
\* when there are none.
C5_FanOutPerActiveAdmin ==
    [][\A w \in Workers :
         /\ BeginStep(w) =>
              LET admins == {u \in DOMAIN users :
                               users[u].role = "admin" /\ users[u].is_active}
                  ns == req'[w].notifs
              IN IF req'[w].notifier_called
                 THEN /\ Len(ns) = Cardinality(admins)
                      /\ \A u \in admins :
                            Cardinality({i \in DOMAIN ns :
                                            ns[i].user_id = u}) = 1
                      /\ \A i \in DOMAIN ns :
                            /\ ns[i].user_id \in admins
                            /\ ns[i].product_id = req'[w].pid
                            /\ ~ns[i].is_read
                 ELSE ns = <<>>
         /\ CommitStep(w) =>
              /\ notifications' = notifications \o req[w].notifs
              /\ Len(txns') = Len(txns) + 1
              /\ products'[req[w].pid].quantity
                    = txns'[Len(txns')].quantity_after]_vars

\* C5 witness: with no active administrator left, a low-stock adjustment is
\* committed and no notification exists.
C5_Witness ==
    /\ {u \in DOMAIN users :
           users[u].role = "admin" /\ users[u].is_active} = {}
    /\ notifications = <<>>
    /\ Len(txns) = 1
    /\ txns[1].quantity_after <= products[txns[1].product_id].reorder_level
    /\ products[txns[1].product_id].quantity = txns[1].quantity_after

\* C6: every low-stock notification in the database belongs to a committed
\* adjustment: the ledger holds an entry for the notification's product
\* whose quantity_after is the quantity the notification reports.
C6_NotificationHasLedgerEntry ==
    \A n \in DOMAIN notifications :
        \E i \in DOMAIN txns :
            /\ txns[i].product_id = notifications[n].product_id
            /\ txns[i].quantity_after = notifications[n].quantity
            /\ txns[i].quantity_after <= notifications[n].reorder_level

\* C6 witness: one adjustment with its notification is committed while a
\* second one has staged notifications that are not in the table.
C6_Witness ==
    /\ Len(txns) = 1
    /\ Len(notifications) = 1
    /\ \E w \in Workers :
          /\ req[w].pc = "staged"
          /\ Len(req[w].notifs) = 1
          /\ req[w].notifs[1].quantity # notifications[1].quantity

\* C7: a request reads the committed quantity when it starts; when it
\* commits after another request changed that quantity, the product's
\* quantity becomes the quantity it read plus its own delta (the other
\* change is overwritten) and its ledger entry records the quantity it read
\* as quantity_before.
C7_LastCommitterWins ==
    [][\A w \in Workers :
         /\ BeginStep(w) =>
              req'[w].old_qty = products[req'[w].pid].quantity
         /\ (CommitStep(w) /\ products[req[w].pid].quantity # req[w].old_qty)
              => /\ products'[req[w].pid].quantity
                       = req[w].old_qty + req[w].delta
                 /\ products'[req[w].pid].quantity
                       # products[req[w].pid].quantity + req[w].delta
                 /\ txns'[Len(txns')].quantity_before = req[w].old_qty
                 /\ txns'[Len(txns')].quantity_after
                       = req[w].old_qty + req[w].delta]_vars

\* C7 witness: two committed ledger entries of one product record the same
\* quantity_before, and the product's quantity is the second entry's
\* quantity_after: the first delta is lost.
C7_Witness ==
    /\ Len(txns) = 2
    /\ txns[1].product_id = txns[2].product_id
    /\ txns[1].quantity_before = txns[2].quantity_before
    /\ products[txns[2].product_id].quantity = txns[2].quantity_after
    /\ products[txns[2].product_id].quantity
          # txns[1].quantity_before + SignedDelta(txns[1])
                                    + SignedDelta(txns[2])

\* C8: a step changes the quantity of an existing product only if it is the
\* successful commit of an adjust_stock call on that product, and the ledger
\* grows by exactly one entry in such a commit and in no other step.
C8_OnlyAdjustChangesQuantity ==
    [][/\ \A p \in DOMAIN products :
            products'[p].quantity # products[p].quantity =>
               \E w \in Workers : CommitStep(w) /\ req[w].pid = p
       /\ IF \E w \in Workers : CommitStep(w)
          THEN Len(txns') = Len(txns) + 1
          ELSE txns' = txns]_vars

\* C8 witness: a product has been edited and soft-deleted and still has the
\* quantity it was created with.
C8_Witness ==
    \E p \in DOMAIN products, i, j \in DOMAIN audit_logs :
        /\ audit_logs[i].entity_type = "product" /\ audit_logs[i].entity_id = p
        /\ audit_logs[i].action = "update"
        /\ audit_logs[j].entity_type = "product" /\ audit_logs[j].entity_id = p
        /\ audit_logs[j].action = "delete"
        /\ ~products[p].is_active
        /\ products[p].quantity = created_qty[p]
        /\ created_qty[p] > 0

\* C9: the ledger and the audit log only grow: every row of an earlier
\* state is still there, unchanged, in the next one.
C9_WriteOnce ==
    [][IsPrefix(txns, txns') /\ IsPrefix(audit_logs, audit_logs')]_vars

\* C9 witness: both tables hold a row that was followed by later rows.
C9_Witness ==
    /\ Len(txns) >= 1
    /\ Len(audit_logs) >= 3
    /\ audit_logs[Len(audit_logs)].action # "adjust_stock"

\* C10: an adjustment whose negative delta exceeds the quantity on hand is
\* committed like any other: the quantity becomes negative and the ledger
\* entry has type 'out' and the negative quantity_after.
C10_NegativeQuantityApplied ==
    [][\A w \in Workers :
         (/\ CommitStep(w)
          /\ req[w].delta < 0
          /\ products[req[w].pid].quantity + req[w].delta < 0)
           => /\ products'[req[w].pid].quantity < 0
              /\ products'[req[w].pid].quantity
                    = products[req[w].pid].quantity + req[w].delta
              /\ txns'[Len(txns')].transaction_type = "out"
              /\ txns'[Len(txns')].quantity_after
                    = products'[req[w].pid].quantity]_vars

\* C10 witness: a product has a negative quantity, recorded by a stock-out
\* entry.
C10_Witness ==
    \E p \in DOMAIN products, i \in DOMAIN txns :
        /\ products[p].quantity < 0
        /\ txns[i].product_id = p
        /\ txns[i].transaction_type = "out"
        /\ txns[i].quantity_after = products[p].quantity

----------------------------------------------------------------------------
(* Properties of the catalogue routes *)

\* C11: a category_delete or supplier_delete request of an administrator
\* changes no table when an active product references the row, and
\* otherwise sets the row's is_active to false and leaves the row, and every
\* other row of the table, in place.
C11_DeleteBlockedOrSoft ==
    [][/\ \A u \in DOMAIN users, c \in DOMAIN categories :
            (category_delete(u, c) /\ users[u].role = "admin") =>
               IF \E p \in DOMAIN products :
                     products[p].is_active /\ products[p].category_id = c
               THEN /\ UNCHANGED <<users, categories, suppliers, products,
                                   txns, notifications, audit_logs>>
                    /\ response'.flashes = <<"danger">>
               ELSE /\ DOMAIN categories' = DOMAIN categories
                    /\ ~categories'[c].is_active
                    /\ categories'[c].name = categories[c].name
                    /\ \A o \in DOMAIN categories :
                          o # c => categories'[o] = categories[o]
       /\ \A u \in DOMAIN users, s \in DOMAIN suppliers :
            (supplier_delete(u, s) /\ users[u].role = "admin") =>
               IF \E p \in DOMAIN products :
                     products[p].is_active /\ products[p].supplier_id = s
               THEN /\ UNCHANGED <<users, categories, suppliers, products,
                                   txns, notifications, audit_logs>>
                    /\ response'.flashes = <<"danger">>
               ELSE /\ DOMAIN suppliers' = DOMAIN suppliers
                    /\ ~suppliers'[s].is_active
                    /\ \A o \in DOMAIN suppliers :
                          o # s => suppliers'[o] = suppliers[o]]_vars

\* C11 witness: after its only product was deactivated, the category was
\* deleted by the administrator: the row is there, inactive.
C11_Witness ==
    /\ Len(categories) = 1
    /\ ~categories[1].is_active
    /\ \E p \in DOMAIN products : products[p].category_id = 1
    /\ audit_logs[Len(audit_logs)].action = "delete"
    /\ audit_logs[Len(audit_logs)].entity_type = "category"
    /\ users[audit_logs[Len(audit_logs)].user_id].role = "admin"

\* C12: a product_delete, category_delete, supplier_delete, user_edit or
\* user_toggle_active request of a logged-in user who is not an
\* administrator changes none of products, categories, suppliers, users and
\* the audit log.
C12_NonAdminRefused ==
    [][\A u \in DOMAIN users :
         (u \in cookies /\ users[u].role # "admin") =>
            ((\/ \E pid \in DOMAIN products : product_delete(u, pid)
              \/ \E c \in DOMAIN categories : category_delete(u, c)
              \/ \E s \in DOMAIN suppliers : supplier_delete(u, s)
              \/ \E t \in DOMAIN users, r \in Roles, a \in BOOLEAN :
                    user_edit(u, t, r, a)
              \/ \E t \in DOMAIN users : user_toggle_active(u, t))
             => UNCHANGED <<products, categories, suppliers, users,
                            audit_logs>>)]_vars

\* C12 witness: the only logged-in user is not an administrator and the
\* last request, a user_toggle_active, was answered with 403.
C12_Witness ==
    /\ cookies # {}
    /\ \A u \in cookies : users[u].role # "admin"
    /\ notifications = <<>>
    /\ response = Json(403)

\* C13: no step removes a row of products, categories, suppliers or users,
\* and a delete request changes at most the is_active flag of its row, to
\* false.
C13_NoHardDelete ==
    [][/\ Len(products') >= Len(products)
       /\ Len(categories') >= Len(categories)
       /\ Len(suppliers') >= Len(suppliers)
       /\ Len(users') >= Len(users)
       /\ \A u \in DOMAIN users, pid \in DOMAIN products :
            product_delete(u, pid) =>
               \A p \in DOMAIN products :
                  \/ products'[p] = products[p]
                  \/ /\ p = pid
                     /\ products'[p] = [products[p] EXCEPT !.is_active = FALSE]
       /\ \A u \in DOMAIN users, c \in DOMAIN categories :
            category_delete(u, c) =>
               \A o \in DOMAIN categories :
                  \/ categories'[o] = categories[o]
                  \/ /\ o = c
                     /\ categories'[o] =
                           [categories[o] EXCEPT !.is_active = FALSE]
       /\ \A u \in DOMAIN users, s \in DOMAIN suppliers :
            supplier_delete(u, s) =>
               \A o \in DOMAIN suppliers :
                  \/ suppliers'[o] = suppliers[o]
                  \/ /\ o = s
                     /\ suppliers'[o] =
                           [suppliers[o] EXCEPT !.is_active = FALSE]]_vars

\* C13 witness: a product and then its supplier were deleted; both rows are
\* still in their tables, inactive.
C13_Witness ==
    /\ \E p \in DOMAIN products :
          /\ ~products[p].is_active
          /\ products[p].supplier_id = 1
          /\ \E i \in DOMAIN audit_logs :
                /\ audit_logs[i].action = "delete"
                /\ audit_logs[i].entity_type = "product"
                /\ audit_logs[i].entity_id = p
    /\ ~suppliers[1].is_active
    /\ audit_logs[Len(audit_logs)].action = "delete"
    /\ audit_logs[Len(audit_logs)].entity_type = "supplier"

----------------------------------------------------------------------------
(* Properties of notifications and of the audit trail *)

\* C14 as claimed: a notification that is read never changes again: is_read
\* stays true and read_at and every other field keep their values.
C14_ReadOnce ==
    [][\A n \in DOMAIN notifications :
         notifications[n].is_read => notifications'[n] = notifications[n]]_vars

\* A request of the account routes that succeeds and writes to the database.
AccountMutationSucceeds ==
    \/ \E pw \in Passwords : register(pw)
    \/ \E pw \in Passwords :
          reset_password(pw) /\ response' = Redirect(<<"success">>)
    \/ \E u \in DOMAIN users : login(u) /\ cookies' # cookies
    \/ \E u \in DOMAIN users, cur \in Passwords, new \in Passwords,
          submit \in {"settings_submit", "password_submit"} :
            settings(u, submit, cur, new) /\ response' = Redirect(<<"success">>)

\* C15 as claimed: every successful mutating operation (register, password
\* reset via OTP, login, settings change among them) appends exactly one
\* audit row.
C15_OneAuditRowPerMutation ==
    [][AccountMutationSucceeds =>
         Len(audit_logs') = Len(audit_logs) + 1]_vars

----------------------------------------------------------------------------
(* Properties of the search *)

\* C16: in the products listing the similarity fallback runs exactly when
\* the structured query returned no row and q is not empty; when it does
\* not run, the structured result is what is shown.
C16_FallbackOnlyOnEmptyResult ==
    page.route = "products" =>
        /\ page.fallback # "not run" <=>
               (page.structured = {} /\ page.q # <<>>)
        /\ page.fallback = "not run" => page.shown = page.structured

\* C16 witness: a listing whose structured query found nothing for a
\* non-empty q and whose fallback found a product.
C16_Witness ==
    /\ page.route = "products"
    /\ page.q # <<>>
    /\ page.structured = {}
    /\ page.fallback = "run"
    /\ page.shown # {}

\* The documents a result of query leaves out.
Omitted(matches, sims) ==
    DOMAIN sims \ {matches[k].idx : k \in DOMAIN matches}

\* C17: SimpleNLP.query returns at most top_k entries, each with its
\* document's similarity, which is greater than 0; the entries are in
\* non-increasing order of similarity; no document left out has a higher
\* similarity than a returned one; a query that shares no term with any
\* document returns the empty list.
C17_QueryTopK ==
    page.route = "query" =>
        LET matches == page.matches
            sims == page.sims
        IN /\ Len(matches) <= page.top_k
           /\ \A k \in DOMAIN matches :
                 /\ matches[k].idx \in DOMAIN sims
                 /\ matches[k].sim = sims[matches[k].idx]
                 /\ matches[k].sim > 0
           /\ \A k, l \in DOMAIN matches :
                 k < l => matches[k].sim >= matches[l].sim
           /\ \A i \in Omitted(matches, sims), k \in DOMAIN matches :
                 sims[i] <= matches[k].sim
           /\ (\A i \in DOMAIN page.docs :
                  Terms(simple_preprocess(page.q))
                      \cap Terms(simple_preprocess(page.docs[i])) = {})
                 => matches = <<>>

\* C17 witness: a query that returned top_k entries and left out a
\* document with a positive similarity.
C17_Witness ==
    /\ page.route = "query"
    /\ Len(page.matches) = page.top_k
    /\ \E i \in Omitted(page.matches, page.sims) : page.sims[i] > 0

\* C18: a product created without a category keeps no category, whatever
\* the suggestion; the suggestion is flashed only for a best category with
\* a score greater than 0.15.
C18_SuggestionAdvisory ==
    [][\A u \in DOMAIN users, name \in ProductNames :
          product_new(u, name, 0, 0, TRUE, 0, 0) =>
              /\ products'[Len(products')].category_id = 0
              /\ (\E k \in DOMAIN response'.flashes :
                     response'.flashes[k] = "info")
                   => /\ response'.suggested \in DOMAIN categories
                      /\ response'.score > SuggestThreshold]_vars

\* C18 witness: a product was created without a category, a category was
\* suggested, and the product has no category.
C18_Witness ==
    /\ response.flashes = <<"info", "success">>
    /\ products # <<>>
    /\ products[Len(products)].category_id = 0

----------------------------------------------------------------------------
(* Properties of the adjustment form and of the one-time password *)

\* C19: product_adjust passes -|d| to adjust_stock for the type 'out', +|d|
\* for the type 'in' and d itself for the type 'adjust'.
C19_TypesCollapseToSign ==
    [][\A u \in DOMAIN users, pid \in DOMAIN products,
          t \in AdjustmentTypes, d \in DeltaInputs :
          product_adjust_begin("w1", u, pid, t, d) =>
              req'["w1"].delta = IF t = "out" THEN 0 - Abs(d)
                                 ELSE IF t = "in" THEN Abs(d)
                                 ELSE d]_vars

\* C19 witness: adjust_stock was called with a negative delta and has
\* staged a ledger entry of type 'out'.
C19_Witness ==
    /\ req["w1"].pc = "staged"
    /\ req["w1"].delta < 0
    /\ req["w1"].txn.transaction_type = "out"

\* The code the user may verify with: stored, with an expiry that has not
\* passed.
OtpAccepted(user, code) ==
    /\ user.otp_code # NoCode
    /\ user.otp_expires # NoTime
    /\ now <= user.otp_expires
    /\ code = user.otp_code

\* C20: a submitted code verifies exactly when a code and an expiry are
\* stored, the time is not later than the expiry and the code is the stored
\* one; generate_otp stores the new code with an expiry 10 minutes ahead in
\* place of what was stored, so that afterwards no other code verifies.
C20_VerifyOtpIff ==
    [][/\ \A code \in OtpCodes :
            (verify_otp(code) /\ session.reset_user_id # 0) =>
                (response' = Redirect(<<"success">>)
                    <=> OtpAccepted(users[session.reset_user_id], code))
       /\ \A uid \in DOMAIN users, code \in OtpCodes, sent \in BOOLEAN :
            forgot_password(uid, code, sent) =>
                /\ users'[uid].otp_code = code
                /\ users'[uid].otp_expires = now + OtpValidMinutes
                /\ \A other \in OtpCodes \ {code} :
                      ~User_verify_otp(users'[uid], other)]_vars

\* C20 witness: a submitted code was accepted, later than the start, and
\* that code is stored and has not expired.
C20_Witness ==
    /\ session.reset_user_id # 0
    /\ session.otp_verified
    /\ response = Redirect(<<"success">>)
    /\ now > 0
    /\ OtpAccepted(users[session.reset_user_id],
                   users[session.reset_user_id].otp_code)

\* C21: a successful password reset clears the user's code and expiry; a
\* user without a stored code has every submitted code rejected, and a code
\* is stored again only by generate_otp, called by forgot_password.
C21_OtpOneTime ==
    [][/\ \A pw \in Passwords :
            (reset_password(pw) /\ response' = Redirect(<<"success">>)) =>
                /\ users'[session.reset_user_id].otp_code = NoCode
                /\ users'[session.reset_user_id].otp_expires = NoTime
                /\ \A code \in OtpCodes :
                      ~User_verify_otp(users'[session.reset_user_id], code)
       /\ \A u \in DOMAIN users :
            users[u].otp_code = NoCode =>
                /\ \A code \in OtpCodes : ~User_verify_otp(users[u], code)
                /\ users'[u].otp_code # NoCode =>
                      \E code \in OtpCodes, sent \in BOOLEAN :
                          forgot_password(u, code, sent)]_vars

\* C21 witness: a password was reset with a verified code and that user
\* holds no code any more.
C21_Witness ==
    /\ session.reset_user_id = 0
    /\ ~session.otp_verified
    /\ response = Redirect(<<"success">>)
    /\ \E u \in DOMAIN users :
          /\ users[u].password = "pw2"
          /\ users[u].otp_code = NoCode
          /\ users[u].otp_expires = NoTime

\* C22 as claimed: reset_password sets the password of a user only if
\* this browser has had a code of that very user verified.
C22_ResetOnlyVerifiedUser ==
    [][\A pw \in Passwords :
          (reset_password(pw) /\ response' = Redirect(<<"success">>)) =>
              session.reset_user_id \in session.verified_for]_vars

----------------------------------------------------------------------------
(* Properties of the catalogue's integrity and of the listing *)

\* C23 as claimed: no active product references an inactive category or an
\* inactive supplier.
C23_ActiveProductHasActiveParents ==
    \A p \in DOMAIN products :
        products[p].is_active =>
            /\ products[p].category_id # 0 =>
                  categories[products[p].category_id].is_active
            /\ products[p].supplier_id # 0 =>
                  suppliers[products[p].supplier_id].is_active

\* C24 as claimed: a request of a user who is not an admin never turns a
\* product's is_active from true to false.
C24_DeactivationAdminOnly ==
    [][\A u \in DOMAIN users :
          ~is_admin(u) =>
              \A pid \in DOMAIN products :
                  (\/ product_delete(u, pid)
                   \/ \E rl \in ReorderInputs, a \in BOOLEAN :
                         product_edit(u, pid, products[pid].name, rl, a,
                                      products[pid].category_id,
                                      products[pid].supplier_id))
                    => \A p \in DOMAIN products :
                          products[p].is_active => products'[p].is_active]_vars

\* C25 as claimed: every active product is matched by exactly one of the
\* stock_status filters in_stock, low_stock and out_of_stock.
C25_StockStatusPartition ==
    \A p \in DOMAIN products :
        products[p].is_active =>
            Cardinality({st \in StockStatuses \ {""} :
                            StockStatusMatches(products[p], st)}) = 1

\* C26 as claimed: every product the listing shows is active and passes
\* the category, supplier and stock_status filters of the request, also
\* when the similarity fallback produced the result.
C26_ShownPassesFilters ==
    page.route = "products" =>
        \A p \in page.shown :
            /\ products[p].is_active
            /\ page.category_id > 0 =>
                  products[p].category_id = page.category_id
            /\ page.supplier_id > 0 =>
                  products[p].supplier_id = page.supplier_id
            /\ StockStatusMatches(products[p], page.stock_status)

\* C27: a submitted quantity of 0 fails the form: nothing is staged and no
\* table changes; adjust_stock is never called with delta 0, and every
\* ledger entry appended has a magnitude >= 1 and a quantity_after that
\* differs from its quantity_before.
C27_ZeroDeltaRejected ==
    [][/\ \A u \in DOMAIN users, pid \in DOMAIN products,
             t \in AdjustmentTypes :
            product_adjust_begin("w1", u, pid, t, 0) =>
                /\ UNCHANGED <<db, req>>
                /\ response' = Render(<<>>)
       /\ \A w \in Workers : BeginStep(w) => req'[w].delta # 0
       /\ txns' # txns =>
            /\ txns'[Len(txns')].quantity >= 1
            /\ txns'[Len(txns')].quantity_after
                  # txns'[Len(txns')].quantity_before]_vars

\* C27 witness: after a committed adjustment, a form with quantity 0 was
\* answered with the form again and nothing is staged.
C27_Witness ==
    /\ response = Render(<<>>)
    /\ Len(txns) >= 1
    /\ \A w \in Workers : req[w].pc = "idle"
    /\ \A i \in DOMAIN txns : txns[i].quantity >= 1

----------------------------------------------------------------------------
(* Properties of the ledger chain, of deactivated users and of the
   isolation of notifications *)

\* The ledger entries of product p, as indices of txns in creation order.
EntriesOf(p) ==
    SelectSeq([i \in DOMAIN txns |-> i], LAMBDA i : txns[i].product_id = p)

\* C28: without overlapping adjustments, the ledger entries of a product
\* form a chain: each entry starts at the quantity_after of the one before,
\* quantity_after is quantity_before + quantity for 'in' and
\* quantity_before - quantity for 'out', and the last entry ends at the
\* product's current quantity.
C28_LedgerChain ==
    \A p \in DOMAIN products :
        LET e == EntriesOf(p)
        IN /\ \A k \in DOMAIN e :
                /\ k > 1 => txns[e[k]].quantity_before
                               = txns[e[k - 1]].quantity_after
                /\ txns[e[k]].transaction_type = "in" =>
                      txns[e[k]].quantity_after
                         = txns[e[k]].quantity_before + txns[e[k]].quantity
                /\ txns[e[k]].transaction_type = "out" =>
                      txns[e[k]].quantity_after
                         = txns[e[k]].quantity_before - txns[e[k]].quantity
           /\ e # <<>> =>
                txns[e[Len(e)]].quantity_after = products[p].quantity

\* C28 witness: a product has two ledger entries, a stock-out followed by
\* a stock-in.
C28_Witness ==
    \E p \in DOMAIN products :
        /\ Len(EntriesOf(p)) = 2
        /\ txns[EntriesOf(p)[1]].transaction_type = "out"
        /\ txns[EntriesOf(p)[2]].transaction_type = "in"

\* A request of user u other than the logout succeeds in this step: it
\* writes its audit row, or it is one of the two notification requests,
\* which write none.
RequestSucceeds(u) ==
    \/ /\ Len(audit_logs') = Len(audit_logs) + 1
       /\ audit_logs'[Len(audit_logs')].user_id = u
       /\ audit_logs'[Len(audit_logs')].action # "logout"
    \/ notifications_read_all(u)
    \/ \E n \in DOMAIN notifications :
          notification_read(u, n) /\ response' = Json(200)

\* C29 as claimed: while a user's is_active is false, the user's login is
\* refused and no request of the user succeeds, whether the session was
\* opened before the deactivation or not.
C29_DeactivatedUserCannotAct ==
    [][\A u \in DOMAIN users :
          ~users[u].is_active =>
              /\ login(u) => cookies' = cookies
              /\ ~RequestSucceeds(u)]_vars

\* C30: notification_read on a notification of another user is answered
\* with 403 and changes nothing, and on one's own notification changes only
\* that one; notifications_read_all marks the caller's unread notifications
\* as read and leaves every other notification as it is.
C30_NotificationsIsolated ==
    [][/\ \A u \in DOMAIN users, n \in DOMAIN notifications :
            notification_read(u, n) =>
                /\ notifications[n].user_id # u =>
                      /\ response' = Json(403)
                      /\ UNCHANGED db
                /\ Len(notifications') = Len(notifications)
                /\ \A m \in DOMAIN notifications :
                      m # n => notifications'[m] = notifications[m]
       /\ \A u \in DOMAIN users :
            notifications_read_all(u) =>
                /\ Len(notifications') = Len(notifications)
                /\ \A n \in DOMAIN notifications :
                      IF notifications[n].user_id = u
                      THEN /\ notifications'[n].is_read
                           /\ notifications[n].is_read =>
                                 notifications'[n] = notifications[n]
                      ELSE notifications'[n] = notifications[n]]_vars

\* C30 witness: a user was refused with 403 while an unread notification
\* of another user exists, which is all that user could have asked for.
C30_Witness ==
    /\ response = Json(403)
    /\ notifications # <<>>
    /\ \A n \in DOMAIN notifications : ~notifications[n].is_read
    /\ \E u \in cookies :
          \A n \in DOMAIN notifications : notifications[n].user_id # u

====
